---------------------------- MODULE Spec2Model ----------------------------
(***************************************************************************)
(* Request construction and response resolution layer of the              *)
(* crucible-connector: the Response envelope (util/RestUri.ts,             *)
(* util/restUri.ts), the authentication lifecycle of the Connector         *)
(* (connector.ts), the verb operations of RestUri (util/RestUri.ts), the   *)
(* endpoint operations of SubConnectorCrucible (unnamed/part_008) and the  *)
(* Uri builder (unnamed/part_001, util/restUri.ts, util/SubConnector.ts).  *)
(***************************************************************************)
EXTENDS Integers, Sequences, FiniteSets, TLC

VARIABLES
  \* ---- Response envelope (util/RestUri.ts, util/restUri.ts) ----
  response,          \* the Response under test: [statusCode, result]
  lastCall,          \* the last method called on it and its argument
  ret,               \* the value that call returned
  \* ---- Connector authentication state (connector.ts) ----
  useAccessToken,    \* constructor parameter
  constructed,       \* TRUE once the constructor has returned
  basicAuthHandler,  \* Connector.basicAuthHandler
  tokenHandler,      \* Connector.tokenHandler (NoHandler models undefined)
  logins,            \* login exchanges issued by refreshAccessToken
  lastLogin,         \* history: how the most recently completed exchange ended
  lastSuccessToken,  \* history: token of the last 200-with-token exchange
  built,             \* history: handlers built by the then-callback
  escaped,           \* TRUE once a rejection left the login promise chain
  uris,              \* RestUri objects created by SubConnector.getRestUri
  \* ---- Verb operations of RestUri (util/RestUri.ts) ----
  calls,             \* promises returned by the verb operations
  wire,              \* HTTP exchanges handed to the underlying client
  \* ---- Endpoint operations of SubConnectorCrucible ----
  requests,          \* promises returned by the endpoint operations
  \* ---- Uri (unnamed/part_001) and its predecessor RestUri (util/restUri.ts) ----
  uri,               \* the Uri object: base, segments, args
  twin,              \* a second Uri given every segment text fragment by fragment
  prevUri,           \* history: the Uri before the last operation
  lastOp,            \* history: the last operation and its arguments
  rendered,          \* history: the string returned by toString, if it was the last call
  origin,            \* history: the host, web context and path given to getRestUri
  \* ---- RestUri.loadFile (util/RestUri.ts) ----
  loads,             \* calls of loadFile: phase of the exchange and state of the promise
  tmpFiles,          \* temporary files that exist, named by the call that created them
  \* ---- Paging (unnamed/part_006) ----
  pageRequests,      \* the paged request options sent so far
  pages,             \* the PagedResponseBase received for each request
  nextOptions,       \* what getNextPagedRequestOptions returned for the last page
  givenLimit,        \* history: the limit argument of that call
  \* ---- Requests issued through the connector ----
  replies,           \* the status each completed request of the connector was answered with
  \* ---- Response.resolveIf / rejectIf / reject (restUri.ts 224-276) ----
  chained,           \* the Response the chain of calls is made on
  done,              \* its field done
  chain,             \* history: the calls made on it, each with whether its callback was invoked
  returned           \* what the last call of the chain returned: "this" or "undefined"

respVars == <<response, lastCall, ret>>
authVars == <<useAccessToken, constructed, basicAuthHandler, tokenHandler,
              logins, lastLogin, lastSuccessToken, built, escaped, uris>>
verbVars == <<calls, wire>>
endpointVars == <<requests>>
uriVars == <<uri, twin, prevUri, lastOp, rendered, origin>>
loadVars == <<loads, tmpFiles>>
pageVars == <<pageRequests, pages, nextOptions, givenLimit>>
replyVars == <<replies>>
chainVars == <<chained, done, chain, returned>>
vars == <<respVars, authVars, verbVars, endpointVars, uriVars, loadVars, pageVars, replyVars, chainVars>>

\* What the actions of one part leave alone.
exceptResp == <<authVars, verbVars, endpointVars, uriVars, loadVars, pageVars, replyVars, chainVars>>
exceptAuth == <<respVars, verbVars, endpointVars, uriVars, loadVars, pageVars, replyVars, chainVars>>
exceptVerb == <<respVars, authVars, endpointVars, uriVars, loadVars, pageVars, replyVars, chainVars>>
exceptEndpoint == <<respVars, authVars, verbVars, uriVars, loadVars, pageVars, replyVars, chainVars>>
exceptUri == <<respVars, authVars, verbVars, endpointVars, loadVars, pageVars, replyVars, chainVars>>
exceptLoad == <<respVars, authVars, verbVars, endpointVars, uriVars, pageVars, replyVars, chainVars>>
exceptPage == <<respVars, authVars, verbVars, endpointVars, uriVars, loadVars, replyVars, chainVars>>
exceptReply == <<respVars, verbVars, endpointVars, uriVars, loadVars, pageVars, chainVars>>
exceptChain == <<respVars, authVars, verbVars, endpointVars, uriVars, loadVars, pageVars, replyVars>>

-----------------------------------------------------------------------------
(* Bounds of the model *)
MaxLogins == 2
MaxUris == 2
MaxCalls == 2

-----------------------------------------------------------------------------
(***************************************************************************)
(* JavaScript values.  Every value is a record of one shape so that any    *)
(* two of them can be compared: t is the type tag, n the number, s the     *)
(* string, f the set of <<field, string value>> pairs of an object.        *)
(***************************************************************************)
JsVal(t, n, s, f) == [t |-> t, n |-> n, s |-> s, f |-> f]
Undefined == JsVal("undefined", 0, "", {})
Null == JsVal("null", 0, "", {})
Num(k) == JsVal("number", k, "", {})
Str(x) == JsVal("string", 0, x, {})
Bool(b) == JsVal("boolean", IF b THEN 1 ELSE 0, "", {})
Obj(fields) == JsVal("object", 0, "", fields)

\* ToBoolean: undefined, null, false, 0 and "" are falsy, objects are truthy.
Truthy(v) ==
  CASE v.t \in {"undefined", "null"} -> FALSE
    [] v.t = "boolean" -> v.n = 1
    [] v.t = "number" -> v.n # 0
    [] v.t = "string" -> v.s # ""
    [] OTHER -> TRUE

\* `v == null` / `v != null`: loose equality with null holds for null and undefined.
IsNullish(v) == v.t \in {"undefined", "null"}

\* Property read `v.name`: undefined when the value has no such property.
Field(v, name) ==
  IF \E p \in v.f : p[1] = name
    THEN Str((CHOOSE p \in v.f : p[1] = name)[2])
    ELSE Undefined

-----------------------------------------------------------------------------
(* Response (util/RestUri.ts 18-46, util/restUri.ts 11-36) *)

Response(statusCode, result) == [statusCode |-> statusCode, result |-> result]

\* restUri.ts 14-22: the earlier accessor `get`, which needs a status code.
get(r, code) ==
  IF ~Truthy(code) \/ code # Num(r.statusCode)
    THEN Undefined
    ELSE IF IsNullish(r.result) THEN Undefined ELSE r.result

\* Variant: a missing status code yields undefined, as in Response.get.
getResult_RequiresCode(r, code) ==
  IF ~Truthy(code) \/ code # Num(r.statusCode)
    THEN Undefined
    ELSE IF IsNullish(r.result) THEN Undefined ELSE r.result

\* RestUri.ts 36-45
getResult(r, code) ==
  IF Truthy(code) /\ code # Num(r.statusCode)
    THEN Undefined
    ELSE IF IsNullish(r.result) THEN Undefined ELSE r.result

DefaultMessage == "Unknown error"
ErrorObject(code, message) == Obj({<<"code", code>>, <<"message", message>>})

\* Variant: the fallback message given by the caller is dropped.
getError_IgnoresFallback(r, fallbackMessage) ==
  IF ~IsNullish(r.result) /\ Truthy(r.result)
    THEN r.result
    ELSE ErrorObject("Unknown", DefaultMessage)

\* restUri.ts 24-35.  The default parameter value is taken when the argument
\* is undefined.
getError(r, fallbackMessage) ==
  LET message == IF fallbackMessage = Undefined THEN DefaultMessage
                 ELSE fallbackMessage.s
      error == ErrorObject("Unknown", message)
  IN IF ~IsNullish(r.result)
       THEN (IF Truthy(r.result) THEN r.result ELSE error)
       ELSE error

-----------------------------------------------------------------------------
(* Inputs of the Response envelope *)

HttpOK == 200
Statuses == {HttpOK, 201, 204, 401, 404, 409, 500}
TokenA == Obj({<<"token", "tokA">>})
TokenB == Obj({<<"token", "tokB">>})
NotFoundError == ErrorObject("NotFound", "x")
EmptyObject == Obj({})
\* Decoded JSON bodies: absent (null, undefined), falsy primitives, truthy
\* primitives and objects.
Bodies == {Null, Undefined, Num(0), Str(""), Bool(FALSE), Num(1), Str("text"),
           Obj({<<"x", "1">>}), NotFoundError, TokenA}
Messages == {Str("custom"), Str("")}

NoCall == [op |-> "none", arg |-> Undefined]

ResponseInit ==
  /\ response \in {Response(s, b) : s \in Statuses, b \in Bodies}
  /\ lastCall = NoCall
  /\ ret = Undefined

\* r.getResult(code) and r.getResult()
GetResult ==
  \E code \in {Num(s) : s \in Statuses} \cup {Undefined} :
    /\ lastCall' = [op |-> "getResult", arg |-> code]
    /\ ret' = getResult(response, code)
    /\ UNCHANGED response
    /\ UNCHANGED exceptResp

\* r.getError(fallbackMessage) and r.getError()
GetError ==
  \E msg \in Messages \cup {Undefined} :
    /\ lastCall' = [op |-> "getError", arg |-> msg]
    /\ ret' = getError(response, msg)
    /\ UNCHANGED response
    /\ UNCHANGED exceptResp

-----------------------------------------------------------------------------
(* Authentication handlers (connector.ts 3949, 3970-3981, 4049) *)

NoHandler == [kind |-> "none", cred |-> Undefined]
BasicCredentialHandler(username, password) ==
  [kind |-> "basic",
   cred |-> Obj({<<"username", username>>, <<"password", password>>})]
PersonalAccessTokenCredentialHandler(token) == [kind |-> "token", cred |-> token]

\* An object reference is truthy, undefined is not.
IsSet(handler) == handler # NoHandler

\* Variant: the token handler alone is returned when it is set.
getAuthHandlers_TokenOnly(token, basic) ==
  IF IsSet(token) THEN <<token>> ELSE <<basic>>

\* connector.ts 3977-3981
getAuthHandlers(token, basic) ==
  IF IsSet(token) THEN <<token, basic>> ELSE <<basic>>

\* connector.ts 4046-4053: the callback run when the login exchange resolves
\* with Response r; `old` is the handler stored at that moment.
loginThen(r, old) ==
  LET auth == get(r, Num(HttpOK))
  IN [tokenHandler |-> IF Truthy(auth)
                         THEN PersonalAccessTokenCredentialHandler(Field(auth, "token"))
                         ELSE NoHandler,
      throws |-> FALSE]

\* Variant: the catch-callback clears the handler and rethrows.
loginCatch_Rethrows(old) == [tokenHandler |-> NoHandler, throws |-> TRUE]

\* Variant: the catch-callback leaves the stored handler in place.
loginCatch_KeepsHandler(old) == [tokenHandler |-> old, throws |-> FALSE]

\* connector.ts 4054-4056: the callback run when the login exchange rejects.
loginCatch(old) == [tokenHandler |-> NoHandler, throws |-> FALSE]

\* connector.ts 4037-4056: create(...).then(f).catch(g).  g also receives what
\* f throws; the chain ends rejected only when g throws, and nothing holds
\* the promise the chain returns.
loginChain(settled, r, old) ==
  IF settled = "resolved" /\ ~loginThen(r, old).throws
    THEN loginThen(r, old)
    ELSE loginCatch(old)

-----------------------------------------------------------------------------
(* Connector (connector.ts 3931-4061) and SubConnector.getRestUri *)

Credentials == {<<"user", "password">>}
LoginStatuses == {HttpOK, 401}
LoginBodies == {Null, Num(0), TokenA, TokenB, EmptyObject}

NoLogin == [outcome |-> "none", response |-> Response(0, Undefined)]
Done(seq) == {i \in DOMAIN seq : seq[i].state # "inflight"}
InFlight(seq) == {i \in DOMAIN seq : seq[i].state = "inflight"}

\* A login response that succeeded: status 200, body with a token.
CarriesToken(r) == r.statusCode = HttpOK /\ Field(r.result, "token") # Undefined

AuthInit ==
  /\ useAccessToken \in BOOLEAN
  /\ constructed = FALSE
  /\ basicAuthHandler = NoHandler
  /\ tokenHandler = NoHandler
  /\ logins = <<>>
  /\ lastLogin = NoLogin
  /\ lastSuccessToken = Undefined
  /\ built = {}
  /\ escaped = FALSE
  /\ uris = <<>>

\* Variant: the login exchange is issued whatever useAccessToken says.
refreshAccessToken_Always(basic) ==
  /\ logins' = Append(logins, [authHandlers |-> getAuthHandlers(tokenHandler, basic),
                               state |-> "inflight"])
  /\ UNCHANGED tokenHandler

\* connector.ts 4035-4060: the synchronous part of refreshAccessToken.  `basic`
\* is the value of this.basicAuthHandler when the method runs.
refreshAccessToken(basic) ==
  IF useAccessToken
    THEN /\ logins' = Append(logins,
                         [authHandlers |-> getAuthHandlers(tokenHandler, basic),
                          state |-> "inflight"])
         /\ UNCHANGED tokenHandler
    ELSE /\ tokenHandler' = NoHandler
         /\ UNCHANGED logins

\* Variant: construction returns only after the login exchange has resolved.
Construct_AwaitsLogin ==
  /\ ~constructed
  /\ \E c \in Credentials, body \in LoginBodies :
       LET basic == BasicCredentialHandler(c[1], c[2])
           r == Response(HttpOK, body)
           cb == loginChain("resolved", r, NoHandler)
       IN /\ basicAuthHandler' = basic
          /\ logins' = IF useAccessToken
                         THEN <<[authHandlers |-> <<basic>>, state |-> "resolved"]>>
                         ELSE logins
          /\ tokenHandler' = IF useAccessToken THEN cb.tokenHandler ELSE NoHandler
          /\ built' = IF useAccessToken /\ IsSet(cb.tokenHandler)
                        THEN {cb.tokenHandler} ELSE built
          /\ lastLogin' = IF useAccessToken
                            THEN [outcome |-> "resolved", response |-> r]
                            ELSE lastLogin
          /\ lastSuccessToken' = IF useAccessToken /\ CarriesToken(r)
                                   THEN Field(body, "token") ELSE lastSuccessToken
  /\ constructed' = TRUE
  /\ UNCHANGED <<useAccessToken, escaped, uris>>
  /\ UNCHANGED exceptAuth

\* connector.ts 3942-3968: new Connector(host, username, password, useAccessToken)
Construct ==
  /\ ~constructed
  /\ \E c \in Credentials :
       /\ basicAuthHandler' = BasicCredentialHandler(c[1], c[2])
       /\ refreshAccessToken(BasicCredentialHandler(c[1], c[2]))
  /\ constructed' = TRUE
  /\ UNCHANGED <<useAccessToken, lastLogin, lastSuccessToken, built, escaped, uris>>
  /\ UNCHANGED exceptAuth

\* A further call of refreshAccessToken on the constructed connector.
Refresh ==
  /\ constructed
  /\ Len(logins) < MaxLogins
  /\ refreshAccessToken(basicAuthHandler)
  /\ UNCHANGED <<useAccessToken, constructed, basicAuthHandler, lastLogin,
                 lastSuccessToken, built, escaped, uris>>
  /\ UNCHANGED exceptAuth

\* The login exchange i completes and RestUri.create resolves with
\* Response(status, body): the then-callback runs.
LoginResolve ==
  \E i \in InFlight(logins), status \in LoginStatuses, body \in LoginBodies :
    LET r == Response(status, body)
        cb == loginChain("resolved", r, tokenHandler)
    IN /\ logins' = [logins EXCEPT ![i].state = "resolved"]
       /\ tokenHandler' = cb.tokenHandler
       /\ escaped' = (escaped \/ cb.throws)
       /\ built' = IF IsSet(cb.tokenHandler) THEN built \cup {cb.tokenHandler}
                   ELSE built
       /\ lastLogin' = [outcome |-> "resolved", response |-> r]
       /\ lastSuccessToken' = IF CarriesToken(r) THEN Field(body, "token")
                              ELSE lastSuccessToken
       /\ UNCHANGED <<useAccessToken, constructed, basicAuthHandler, uris>>
       /\ UNCHANGED exceptAuth

\* The login exchange i fails in the transport: the catch-callback runs.
LoginReject ==
  \E i \in InFlight(logins) :
    LET cb == loginChain("rejected", Response(0, Undefined), tokenHandler)
    IN /\ logins' = [logins EXCEPT ![i].state = "rejected"]
       /\ tokenHandler' = cb.tokenHandler
       /\ escaped' = (escaped \/ cb.throws)
       /\ lastLogin' = [outcome |-> "rejected", response |-> Response(0, Undefined)]
       /\ UNCHANGED <<useAccessToken, constructed, basicAuthHandler,
                      lastSuccessToken, built, uris>>
       /\ UNCHANGED exceptAuth

\* SubConnector.ts 42-44: getRestUri reads the handler list and stores it in
\* the new RestUri (RestUri.ts 59-64).  readAfter and sentAfter are history:
\* the number of login exchanges completed when the list was read and when
\* the request was sent.
GetRestUri ==
  /\ constructed
  /\ Len(uris) < MaxUris
  /\ uris' = Append(uris, [authHandlers |-> getAuthHandlers(tokenHandler, basicAuthHandler),
                           readAfter |-> Cardinality(Done(logins)),
                           sentWith |-> <<>>,
                           sentAfter |-> 0])
  /\ UNCHANGED <<useAccessToken, constructed, basicAuthHandler, tokenHandler,
                 logins, lastLogin, lastSuccessToken, built, escaped>>
  /\ UNCHANGED exceptAuth

\* Variant: the client of a request is created with the handler list the
\* connector hands out when the verb operation is called.
SendRequest_ReadsCurrentHandlers ==
  \E i \in DOMAIN uris :
    /\ uris[i].sentWith = <<>>
    /\ uris' = [uris EXCEPT ![i].sentWith =
                               getAuthHandlers(tokenHandler, basicAuthHandler),
                             ![i].sentAfter = Cardinality(Done(logins))]
    /\ UNCHANGED <<useAccessToken, constructed, basicAuthHandler, tokenHandler,
                   logins, lastLogin, lastSuccessToken, built, escaped>>
    /\ UNCHANGED exceptAuth

\* RestUri.ts 74-76, 91-206: a verb operation creates its client with the
\* handler list stored in the RestUri and issues the request.
SendRequest ==
  \E i \in DOMAIN uris :
    /\ uris[i].sentWith = <<>>
    /\ uris' = [uris EXCEPT ![i].sentWith = uris[i].authHandlers,
                             ![i].sentAfter = Cardinality(Done(logins))]
    /\ UNCHANGED <<useAccessToken, constructed, basicAuthHandler, tokenHandler,
                   logins, lastLogin, lastSuccessToken, built, escaped>>
    /\ UNCHANGED exceptAuth

ReplyStatuses == {HttpOK, 401}
ReplyIdle == replies = {}
Answered == {p[1] : p \in replies}

\* Variant: a request answered with 401 makes the connector log in again.
RequestCompletes_RefreshesOn401 ==
  \E i \in DOMAIN uris, status \in ReplyStatuses :
    /\ uris[i].sentWith # <<>>
    /\ i \notin Answered
    /\ replies' = replies \cup {<<i, status>>}
    /\ logins' = IF status = 401
                   THEN Append(logins,
                          [authHandlers |-> getAuthHandlers(tokenHandler, basicAuthHandler),
                           state |-> "inflight"])
                   ELSE logins
    /\ UNCHANGED <<useAccessToken, constructed, basicAuthHandler, tokenHandler,
                   lastLogin, lastSuccessToken, built, escaped, uris>>
    /\ UNCHANGED exceptReply

\* RestUri.ts 97-99: the request of a RestUri completes with a status.  The
\* Response goes to the caller of the verb operation; nothing of the
\* connector is touched.
RequestCompletes ==
  \E i \in DOMAIN uris, status \in ReplyStatuses :
    /\ uris[i].sentWith # <<>>
    /\ i \notin Answered
    /\ replies' = replies \cup {<<i, status>>}
    /\ UNCHANGED <<useAccessToken, constructed, basicAuthHandler, tokenHandler,
                   logins, lastLogin, lastSuccessToken, built, escaped, uris>>
    /\ UNCHANGED exceptReply

-----------------------------------------------------------------------------
(* Verb operations of RestUri (util/RestUri.ts 91-206) *)

Verbs == {"get", "create", "update", "replace", "del", "uploadFile"}

\* The RestClient method each verb operation calls (RestUri.ts 96, 118, 140,
\* 162, 182, 198).
ClientMethod(verb) ==
  CASE verb = "get" -> "get"
    [] verb = "create" -> "create"
    [] verb = "update" -> "update"
    [] verb = "replace" -> "update"
    [] verb = "del" -> "del"
    [] verb = "uploadFile" -> "uploadStream"

VerbStatuses == {HttpOK, 204, 404, 500}
VerbBodies == {Null, Obj({<<"x", "1">>}), NotFoundError}
TransportErrors == {Str("ECONNREFUSED"), Str("ETIMEDOUT")}

NoResponse == Response(0, Undefined)
Pending(verb) ==
  [verb |-> verb, state |-> "pending", value |-> NoResponse, error |-> Undefined]

\* Variant: a completed exchange with status 400 or above is rejected.
onFulfilled_RejectsErrorStatus(res) ==
  IF res.statusCode >= 400
    THEN [state |-> "rejected", value |-> NoResponse, error |-> res.result]
    ELSE [state |-> "resolved",
          value |-> Response(res.statusCode, res.result),
          error |-> Undefined]

\* RestUri.ts 97-99 (and 119-121, 141-143, 163-165, 183-185, 199-201):
\* resolve(new Response(res.statusCode, res.result))
onFulfilled(res) ==
  [state |-> "resolved",
   value |-> Response(res.statusCode, res.result),
   error |-> Undefined]

\* RestUri.ts 100-102: reject(e)
onRejected(e) == [state |-> "rejected", value |-> NoResponse, error |-> e]

\* A promise takes the first settlement only.
Settle(p, s) ==
  IF p.state = "pending"
    THEN [p EXCEPT !.state = s.state, !.value = s.value, !.error = s.error]
    ELSE p

VerbInit ==
  /\ calls = <<>>
  /\ wire = <<>>

\* uri.get(id), uri.create(id, content), ...: the executor creates the client
\* and hands it one exchange.
CallVerb ==
  /\ Len(calls) < MaxCalls
  /\ \E verb \in Verbs :
       /\ calls' = Append(calls, Pending(verb))
       /\ wire' = Append(wire, [call |-> Len(calls) + 1,
                                method |-> ClientMethod(verb),
                                state |-> "inflight",
                                response |-> NoResponse,
                                error |-> Undefined])
  /\ UNCHANGED exceptVerb

\* The client's promise resolves: the HTTP exchange completed.
ClientResolve ==
  \E w \in InFlight(wire), status \in VerbStatuses, body \in VerbBodies :
    LET r == Response(status, body)
        c == wire[w].call
    IN /\ wire' = [wire EXCEPT ![w].state = "completed", ![w].response = r]
       /\ calls' = [calls EXCEPT ![c] = Settle(calls[c], onFulfilled(r))]
       /\ UNCHANGED exceptVerb

\* Variant: a failed exchange is issued once more before the promise rejects.
ClientReject_Retries ==
  \E w \in InFlight(wire), e \in TransportErrors :
    LET c == wire[w].call
        failed == [wire EXCEPT ![w].state = "failed", ![w].error = e]
    IN /\ wire' = IF Cardinality({v \in DOMAIN wire : wire[v].call = c}) = 1
                    THEN Append(failed, [wire[w] EXCEPT !.state = "inflight"])
                    ELSE failed
       /\ calls' = IF Cardinality({v \in DOMAIN wire : wire[v].call = c}) = 1
                     THEN calls
                     ELSE [calls EXCEPT ![c] = Settle(calls[c], onRejected(e))]
       /\ UNCHANGED exceptVerb

\* The client's promise rejects: the transport failed.
ClientReject ==
  \E w \in InFlight(wire), e \in TransportErrors :
    LET c == wire[w].call
    IN /\ wire' = [wire EXCEPT ![w].state = "failed", ![w].error = e]
       /\ calls' = [calls EXCEPT ![c] = Settle(calls[c], onRejected(e))]
       /\ UNCHANGED exceptVerb

-----------------------------------------------------------------------------
(***************************************************************************)
(* Endpoint operations of SubConnectorCrucible.  Each one calls a verb     *)
(* operation of a RestUri and settles its own promise in the callbacks     *)
(* chained to the verb's promise: the then-callback receives the Response  *)
(* the exchange completed with, the catch-callback the transport error.    *)
(***************************************************************************)
MaxRequests == 1

HttpConflict == 409
HttpCreated == 201
defaultError == ErrorObject("Unknown", DefaultMessage)

resolve(v) == [state |-> "resolved", value |-> v]
reject(e) == [state |-> "rejected", value |-> e]

\* a || b
Or(a, b) == IF Truthy(a) THEN a ELSE b

\* part_008 548-565: the shape shared by the endpoints that return content.
thenGetRepository(r) ==
  LET content == getResult(r, Num(HttpOK))
  IN IF Truthy(content) THEN resolve(content)
     ELSE reject(Or(getResult(r, Undefined), defaultError))

\* subConnectorCommon.ts 1503-1509: the same shape with the status 201.
thenCreateUserGroup(r) ==
  LET result == getResult(r, Num(HttpCreated))
  IN IF Truthy(result) THEN resolve(result)
     ELSE reject(Or(getResult(r, Undefined), defaultError))

\* part_008 2491-2521 and 2538-2564: no default after getResult.
thenGetAllowedForReview(r) ==
  LET content == getResult(r, Num(HttpOK))
  IN IF Truthy(content) THEN resolve(content)
     ELSE reject(getResult(r, Undefined))

\* The rejection of the review transitions: the conflict shape first.
rejectReview(r) ==
  LET reviewError == getResult(r, Num(HttpConflict))
  IN IF Truthy(reviewError) THEN reject(reviewError)
     ELSE reject(Or(getResult(r, Undefined), defaultError))

\* Variant: a conflict is answered with the default error.
thenCompleteReview_DefaultOnConflict(r) ==
  IF r.statusCode = HttpOK THEN resolve(Undefined)
  ELSE IF r.statusCode = HttpConflict THEN reject(defaultError)
  ELSE reject(Or(getResult(r, Undefined), defaultError))

\* part_008 1349-1375 and 1385-1411: resolve() carries no value.
thenCompleteReview(r) ==
  IF r.statusCode = HttpOK THEN resolve(Undefined) ELSE rejectReview(r)

\* part_008 1903-1909
thenDeleteReviewItem(r) ==
  IF r.statusCode = HttpOK THEN resolve(Undefined)
  ELSE reject(Or(getResult(r, Undefined), defaultError))

\* part_008 1422-1453
thenChangeReviewState(r) ==
  LET result == getResult(r, Num(HttpOK))
  IN IF Truthy(result) THEN resolve(result) ELSE rejectReview(r)

ContentEndpoints == {"getRepository", "getFileRevisionContent", "getReviewItem"}
VoidEndpoints == {"deleteReviewItem"}
CreatedEndpoints == {"createUserGroup"}
AllowedEndpoints == {"getAllowedParticipantsForReview",
                     "getAllowedMembersForReview"}
CompleteEndpoints == {"completeReview", "uncompleteReview"}
ReviewEndpoints == CompleteEndpoints \cup {"changeReviewState"}
Endpoints ==
  ContentEndpoints \cup CreatedEndpoints \cup AllowedEndpoints \cup ReviewEndpoints
    \cup VoidEndpoints

thenOf(endpoint, r) ==
  IF endpoint \in ContentEndpoints THEN thenGetRepository(r)
  ELSE IF endpoint \in CreatedEndpoints THEN thenCreateUserGroup(r)
  ELSE IF endpoint \in VoidEndpoints THEN thenDeleteReviewItem(r)
  ELSE IF endpoint \in AllowedEndpoints THEN thenGetAllowedForReview(r)
  ELSE IF endpoint \in CompleteEndpoints THEN thenCompleteReview(r)
  ELSE thenChangeReviewState(r)

\* The verb operation of RestUri each endpoint operation calls.
verbOf(endpoint) ==
  CASE endpoint \in {"getRepository", "getAllowedParticipantsForReview",
                     "getAllowedMembersForReview"} -> "get"
    [] endpoint = "getFileRevisionContent" -> "loadFile"
    [] endpoint \in {"createUserGroup"} \cup ReviewEndpoints -> "create"
    [] endpoint \in {"deleteReviewItem", "getReviewItem"} -> "del"

\* The resource each endpoint operation addresses, below the web context.
resourceOf(endpoint) ==
  CASE endpoint = "getRepository" -> "repositories-v1/{repository}"
    [] endpoint = "getFileRevisionContent" ->
         "repositories-v1/content/{repository}/{revision}/{path}"
    [] endpoint = "getAllowedParticipantsForReview" ->
         "reviewer-search/{reviewId}/search"
    [] endpoint = "getAllowedMembersForReview" ->
         "reviewer-search/{reviewId}/group-members/{groupName}"
    [] endpoint = "createUserGroup" -> "admin/groups"
    [] endpoint = "completeReview" -> "reviews-v1/{reviewId}/complete"
    [] endpoint = "uncompleteReview" -> "reviews-v1/{reviewId}/uncomplete"
    [] endpoint = "changeReviewState" -> "reviews-v1/{reviewId}/transition"
    [] endpoint \in {"deleteReviewItem", "getReviewItem"} ->
         "reviews-v1/{reviewId}/reviewitems/{reviewItemId}"

ConflictError == Obj({<<"code", "ReviewCompletionConflict">>})
EndpointStatuses == {HttpOK, HttpCreated, 404, HttpConflict, 500}
EndpointBodies == {Null, Num(0), Str(""), Obj({<<"x", "1">>}), NotFoundError,
                   ConflictError}

EndpointInit == requests = <<>>

\* An endpoint operation is called: its promise is pending while the verb's
\* exchange is in flight.
CallEndpoint ==
  \E e \in Endpoints :
    /\ Len(requests) < MaxRequests
    /\ requests' = Append(requests,
         [endpoint |-> e, verb |-> verbOf(e), resource |-> resourceOf(e),
          state |-> "pending", cause |-> "none",
          response |-> NoResponse, value |-> Undefined])
    /\ UNCHANGED exceptEndpoint

PendingRequests == {i \in DOMAIN requests : requests[i].state = "pending"}

\* The verb's promise resolves with a Response: the then-callback runs.
EndpointThen ==
  \E i \in PendingRequests, s \in EndpointStatuses, b \in EndpointBodies :
    LET r == Response(s, b)
        o == thenOf(requests[i].endpoint, r)
    IN /\ requests' = [requests EXCEPT ![i].state = o.state,
                                       ![i].cause = "response",
                                       ![i].response = r,
                                       ![i].value = o.value]
       /\ UNCHANGED exceptEndpoint

\* The verb's promise rejects: the catch-callback forwards the reason.
EndpointCatch ==
  \E i \in PendingRequests, e \in TransportErrors :
    /\ requests' = [requests EXCEPT ![i].state = "rejected",
                                    ![i].cause = "transport",
                                    ![i].value = e]
    /\ UNCHANGED exceptEndpoint

-----------------------------------------------------------------------------
(***************************************************************************)
(* Uri (unnamed/part_001).  A text is the sequence of its characters; the  *)
(* segments and the parameter values of a Uri are texts.  The Map of       *)
(* parameters is the sequence of its entries in the order of insertion.    *)
(***************************************************************************)
MaxOps == 2

Text(cs) == [t |-> "string", cs |-> cs]
Arr(items) == [t |-> "array", items |-> items]
\* An object literal: its own properties in the order Object.entries lists them.
Entries(es) == [t |-> "object", entries |-> es]

RECURSIVE Flatten(_)
Flatten(ss) == IF ss = <<>> THEN <<>> ELSE Head(ss) \o Flatten(Tail(ss))

\* Array.prototype.join
RECURSIVE join(_, _)
join(ss, sep) ==
  IF ss = <<>> THEN <<>>
  ELSE IF Len(ss) = 1 THEN Head(ss)
  ELSE Head(ss) \o sep \o join(Tail(ss), sep)

\* Array.prototype.filter with the test `s.length > 0`
RECURSIVE filterNonEmpty(_)
filterNonEmpty(ss) ==
  IF ss = <<>> THEN <<>>
  ELSE (IF Len(Head(ss)) > 0 THEN <<Head(ss)>> ELSE <<>>)
         \o filterNonEmpty(Tail(ss))

\* String.prototype.split("/"): the pieces between the slashes, empty ones
\* included.
RECURSIVE split(_)
split(cs) ==
  IF \A i \in DOMAIN cs : cs[i] # "/" THEN <<cs>>
  ELSE LET i == CHOOSE j \in DOMAIN cs :
                  cs[j] = "/" /\ \A k \in 1..(j - 1) : cs[k] # "/"
       IN <<SubSeq(cs, 1, i - 1)>> \o split(SubSeq(cs, i + 1, Len(cs)))

\* Percent-encoding of one character (UTF-8, the ASCII range).
PercentCode(c) ==
  CASE c = " " -> <<"%", "2", "0">>
    [] c = "%" -> <<"%", "2", "5">>
    [] c = "#" -> <<"%", "2", "3">>
    [] c = "$" -> <<"%", "2", "4">>
    [] c = "&" -> <<"%", "2", "6">>
    [] c = "+" -> <<"%", "2", "B">>
    [] c = "," -> <<"%", "2", "C">>
    [] c = "/" -> <<"%", "2", "F">>
    [] c = ":" -> <<"%", "3", "A">>
    [] c = ";" -> <<"%", "3", "B">>
    [] c = "=" -> <<"%", "3", "D">>
    [] c = "?" -> <<"%", "3", "F">>
    [] c = "@" -> <<"%", "4", "0">>

\* Characters encodeURI keeps and encodeURIComponent escapes.
UriReserved == {";", "/", "?", ":", "@", "&", "=", "+", "$", ",", "#"}
\* Characters of the model's alphabet that both functions escape.
AlwaysEscaped == {" ", "%"}

encodeURIComponent(cs) ==
  Flatten([i \in DOMAIN cs |->
             IF cs[i] \in UriReserved \cup AlwaysEscaped
               THEN PercentCode(cs[i]) ELSE <<cs[i]>>])

encodeURI(cs) ==
  Flatten([i \in DOMAIN cs |->
             IF cs[i] \in AlwaysEscaped THEN PercentCode(cs[i]) ELSE <<cs[i]>>])

Digits == <<"1", "2", "3", "4", "5", "6", "7", "8", "9">>

\* String(v) for the values the model passes as parameters.
String(v) ==
  CASE v.t = "undefined" -> <<"u", "n", "d", "e", "f", "i", "n", "e", "d">>
    [] v.t = "null" -> <<"n", "u", "l", "l">>
    [] v.t = "string" -> v.cs
    [] v.t = "number" -> IF v.n = 0 THEN <<"0">> ELSE <<Digits[v.n]>>
    [] v.t = "boolean" -> IF v.n = 1 THEN <<"t", "r", "u", "e">>
                          ELSE <<"f", "a", "l", "s", "e">>

\* part_001 21-25: new Uri(base) without further segments.
NewUri(base) == [base |-> base, segments |-> <<>>, args |-> <<>>]

\* Variant: the text is stored as one segment, slashes included.
prepareSegment_NoSplit(segment) ==
  [i \in DOMAIN filterNonEmpty(<<segment>>) |->
     encodeURIComponent(filterNonEmpty(<<segment>>)[i])]

\* part_001 112-115
prepareSegment(segment) ==
  LET segments == IF \E i \in DOMAIN segment : segment[i] = "/"
                    THEN split(segment) ELSE <<segment>>
      kept == filterNonEmpty(segments)
  IN [i \in DOMAIN kept |-> encodeURIComponent(kept[i])]

\* part_001 84-87
addSegment(u, segment) ==
  [u EXCEPT !.segments = @ \o prepareSegment(segment)]

\* Map.prototype.has / get / set on the entries in insertion order.
mapHas(args, key) == \E i \in DOMAIN args : args[i].key = key
mapGetOrEmpty(args, key) ==
  IF mapHas(args, key)
    THEN args[CHOOSE i \in DOMAIN args : args[i].key = key].values
    ELSE <<>>
mapSet(args, key, values) ==
  IF mapHas(args, key)
    THEN [i \in DOMAIN args |->
            IF args[i].key = key THEN [key |-> key, values |-> values]
            ELSE args[i]]
    ELSE Append(args, [key |-> key, values |-> values])

\* Variant: the new values replace the list stored for the key.
setParametersFromArray_Overwrites(u, key, values) ==
  IF ~IsNullish(values) /\ Len(values.items) > 0
    THEN [u EXCEPT !.args =
            mapSet(@, key, [i \in DOMAIN values.items |-> String(values.items[i])])]
    ELSE u

\* part_001 60-66
setParametersFromArray(u, key, values) ==
  IF ~IsNullish(values) /\ Len(values.items) > 0
    THEN LET strValues == [i \in DOMAIN values.items |-> String(values.items[i])]
         IN [u EXCEPT !.args = mapSet(@, key, mapGetOrEmpty(@, key) \o strValues)]
    ELSE u

\* part_001 74-77
setParameter(u, key, value) == setParametersFromArray(u, key, Arr(<<value>>))

\* Variant: every property is kept.
filterDefined_KeepsAll(es) == es

\* The filter `v[1] != undefined` of setParametersFromObject.
RECURSIVE filterDefined(_)
filterDefined(es) ==
  IF es = <<>> THEN <<>>
  ELSE (IF ~IsNullish(Head(es)[2]) THEN <<Head(es)>> ELSE <<>>)
         \o filterDefined(Tail(es))

RECURSIVE forEachEntry(_, _)
forEachEntry(u, es) ==
  IF es = <<>> THEN u
  ELSE LET name == Head(es)[1]
           value == Head(es)[2]
       IN forEachEntry(IF value.t = "array"
                         THEN setParametersFromArray(u, name, value)
                         ELSE setParameter(u, name, value),
                       Tail(es))

\* part_001 35-50
setParametersFromObject(u, parameter) ==
  IF ~IsNullish(parameter)
    THEN forEachEntry(u, filterDefined(parameter.entries))
    ELSE u

\* The `key=value` strings of toString, in the order forEach visits them.
urlParamsOf(args) ==
  Flatten([i \in DOMAIN args |->
             [j \in DOMAIN args[i].values |->
                encodeURI(args[i].key) \o <<"=">> \o encodeURI(args[i].values[j])]])

\* Variant: the base is put in front of the stored segments themselves.
toString_UnshiftsInPlace(u) ==
  LET segments == <<u.base>> \o
                    [i \in DOMAIN filterNonEmpty(u.segments) |->
                       encodeURI(filterNonEmpty(u.segments)[i])]
      urlParams == urlParamsOf(u.args)
  IN [url |-> join(segments, <<"/">>) \o
                (IF Len(urlParams) > 0 THEN <<"?">> \o join(urlParams, <<"&">>)
                 ELSE <<>>),
      self |-> [u EXCEPT !.segments = <<u.base>> \o @]]

\* part_001 92-106: the string returned and the Uri after the call.
toString(u) ==
  LET kept == filterNonEmpty(u.segments)
      segments == <<u.base>> \o [i \in DOMAIN kept |-> encodeURI(kept[i])]
      urlParams == urlParamsOf(u.args)
  IN [url |-> join(segments, <<"/">>) \o
                (IF Len(urlParams) > 0 THEN <<"?">> \o join(urlParams, <<"&">>)
                 ELSE <<>>),
      self |-> u]

\* SubConnector.ts 34-36: getWebContext() || ""
webContext(configured) ==
  IF configured.t = "undefined" \/ configured.cs = <<>> THEN <<>>
  ELSE configured.cs

\* Variant: the web context is left out.
getRestUri_NoContext(host, configured, base) == addSegment(NewUri(host), base)

\* SubConnector.ts 42-44
getRestUri(host, configured, base) ==
  addSegment(addSegment(NewUri(host), webContext(configured)), base)

\* The non-empty '/'-separated fragments of a text, in order: the maximal
\* runs of characters other than '/'.
FragmentStarts(t) ==
  {i \in DOMAIN t : t[i] # "/" /\ (i = 1 \/ t[i - 1] = "/")}
FragmentAt(t, i) ==
  SubSeq(t, i, CHOOSE j \in i..Len(t) :
                 /\ \A k \in i..j : t[k] # "/"
                 /\ (j = Len(t) \/ t[j + 1] = "/"))
RECURSIVE FragmentsFrom(_, _)
FragmentsFrom(t, starts) ==
  IF starts = {} THEN <<>>
  ELSE LET i == CHOOSE m \in starts : \A n \in starts : m <= n
       IN <<FragmentAt(t, i)>> \o FragmentsFrom(t, starts \ {i})
Fragments(t) == FragmentsFrom(t, FragmentStarts(t))

\* addSegment called once for each text of a list.
RECURSIVE addEach(_, _)
addEach(u, ts) ==
  IF ts = <<>> THEN u ELSE addEach(addSegment(u, Head(ts)), Tail(ts))

Hosts == {<<"h">>}
WebContexts == {Undefined, Text(<<>>), Text(<<"c">>), Text(<<"/", "c", "/", "d", "/">>)}
ResourcePaths == {<<"/", "r", "/", "v">>}
SegmentTexts == {<<>>, <<"a">>, <<"/", "a", "/", "b", "/">>, <<"a", "/", "/", "b">>,
                 <<"/">>, <<"a", " ", "b">>}
Keys == {<<"k">>, <<"t">>}
Git == Text(<<"g", "i", "t">>)
Svn == Text(<<"s", "v", "n">>)
ParamValues == {Undefined, Null, Text(<<"x">>), Num(5)}
ArrayValues == {Undefined, Null, Arr(<<>>), Arr(<<Git, Svn>>), Arr(<<Num(5)>>)}
Objects == {Undefined,
            Entries(<< <<(<<"a">>), Undefined>>, <<(<<"b">>), Text(<<"x">>)>> >>),
            Entries(<< <<(<<"a">>), Arr(<<>>)>> >>),
            Entries(<< <<(<<"k">>), Null>> >>),
            Entries(<< <<(<<"t">>), Arr(<<Git, Svn>>)>>, <<(<<"k">>), Num(5)>> >>)}

NotRendered == <<"-">>
Op(op, key, arg, n) == [op |-> op, key |-> key, arg |-> arg, n |-> n]

\* A sub-connector has built a Uri with getRestUri.
UriInit ==
  \E host \in Hosts, configured \in WebContexts, base \in ResourcePaths :
    /\ uri = getRestUri(host, configured, base)
    /\ twin = addEach(NewUri(host),
                      Fragments(webContext(configured)) \o Fragments(base))
    /\ prevUri = NewUri(host)
    /\ lastOp = Op("getRestUri", <<>>, Undefined, 0)
    /\ rendered = NotRendered
    /\ origin = [host |-> host, webContext |-> configured, base |-> base]

UriIdle ==
  /\ uri = NewUri(<<>>)
  /\ twin = NewUri(<<>>)
  /\ prevUri = NewUri(<<>>)
  /\ lastOp = Op("none", <<>>, Undefined, 0)
  /\ rendered = NotRendered
  /\ origin = [host |-> <<>>, webContext |-> Undefined, base |-> <<>>]

\* What every operation but toString records.
Changes(op, key, arg) ==
  /\ lastOp.n < MaxOps
  /\ prevUri' = uri
  /\ lastOp' = Op(op, key, arg, lastOp.n + 1)
  /\ rendered' = NotRendered
  /\ UNCHANGED origin
  /\ UNCHANGED exceptUri

AddSegment ==
  \E t \in SegmentTexts :
    /\ uri' = addSegment(uri, t)
    /\ twin' = addEach(twin, Fragments(t))
    /\ Changes("addSegment", <<>>, Text(t))

SetParameter ==
  \E key \in Keys, value \in ParamValues :
    /\ uri' = setParameter(uri, key, value)
    /\ twin' = setParameter(twin, key, value)
    /\ Changes("setParameter", key, value)

SetParametersFromArray ==
  \E key \in Keys, values \in ArrayValues :
    /\ uri' = setParametersFromArray(uri, key, values)
    /\ twin' = setParametersFromArray(twin, key, values)
    /\ Changes("setParametersFromArray", key, values)

SetParametersFromObject ==
  \E parameter \in Objects :
    /\ uri' = setParametersFromObject(uri, parameter)
    /\ twin' = setParametersFromObject(twin, parameter)
    /\ Changes("setParametersFromObject", <<>>, parameter)

UriToString ==
  /\ lastOp.op # "toString"
  /\ uri' = toString(uri).self
  /\ rendered' = toString(uri).url
  /\ prevUri' = uri
  /\ lastOp' = Op("toString", <<>>, Undefined, lastOp.n)
  /\ UNCHANGED <<twin, origin>>
  /\ UNCHANGED exceptUri

-----------------------------------------------------------------------------
(***************************************************************************)
(* RestUri of util/restUri.ts (38-83), the predecessor of Uri: parts for   *)
(* segments, setArgs with the modes 'join' and 'repeat'.  A RestUri is the *)
(* same record as a Uri, its parts in the field segments.                  *)
(***************************************************************************)
\* Variant: the mode is not looked at, every value is added on its own.
setArgs_AlwaysRepeats(u, key, values, type) ==
  IF ~IsNullish(values) /\ Len(values.items) > 0
    THEN LET strValues == [i \in DOMAIN values.items |-> String(values.items[i])]
         IN [u EXCEPT !.args = mapSet(@, key, mapGetOrEmpty(@, key) \o strValues)]
    ELSE u

\* restUri.ts 48-55; the mode is 'join' when the argument is left out.
setArgs(u, key, values, type) ==
  LET mode == IF type = Undefined THEN Str("join") ELSE type
  IN IF ~IsNullish(values) /\ Len(values.items) > 0
       THEN LET strValues == [i \in DOMAIN values.items |-> String(values.items[i])]
                newValues == IF mode = Str("join")
                               THEN <<join(strValues, <<",">>)>> ELSE strValues
            IN [u EXCEPT !.args = mapSet(@, key, mapGetOrEmpty(@, key) \o newValues)]
       ELSE u

\* restUri.ts 57-62
setArg(u, key, value) ==
  IF ~IsNullish(value)
    THEN [u EXCEPT !.args = mapSet(@, key, mapGetOrEmpty(@, key) \o <<String(value)>>)]
    ELSE u

\* restUri.ts 64-67
addPart(u, part) == [u EXCEPT !.segments = Append(@, part)]

\* restUri.ts 69-83
str(u) ==
  LET parts == <<u.base>> \o [i \in DOMAIN u.segments |-> encodeURI(u.segments[i])]
      urlParams == urlParamsOf(u.args)
  IN join(parts, <<"/">>) \o
       (IF Len(urlParams) > 0 THEN <<"?">> \o join(urlParams, <<"&">>) ELSE <<>>)

ArgLists == {Undefined, Arr(<<>>), Arr(<<Git, Svn>>), Arr(<<Num(5)>>),
             Arr(<<Text(<<"a", " ", "b">>), Text(<<"x">>)>>)}
ArgTypes == {Undefined, Str("join"), Str("repeat")}
Parts == {<<"a">>, <<"a", " ", "b">>}
ArgsCall(values, type) == [t |-> "arguments", values |-> values, type |-> type]

\* new RestUri(base)
RestUriInit ==
  \E base \in Hosts :
    /\ uri = NewUri(base)
    /\ twin = NewUri(base)
    /\ prevUri = NewUri(base)
    /\ lastOp = Op("new", <<>>, Undefined, 0)
    /\ rendered = NotRendered
    /\ origin = [host |-> base, webContext |-> Undefined, base |-> <<>>]

SetArgs ==
  \E key \in Keys, values \in ArgLists, type \in ArgTypes :
    /\ uri' = setArgs(uri, key, values, type)
    /\ Changes("setArgs", key, ArgsCall(values, type))
    /\ UNCHANGED twin

SetArg ==
  \E key \in Keys, value \in ParamValues :
    /\ uri' = setArg(uri, key, value)
    /\ Changes("setArg", key, value)
    /\ UNCHANGED twin

AddPart ==
  \E part \in Parts :
    /\ uri' = addPart(uri, part)
    /\ Changes("addPart", <<>>, Text(part))
    /\ UNCHANGED twin

CallStr ==
  /\ lastOp.op # "str"
  /\ rendered' = str(uri)
  /\ prevUri' = uri
  /\ lastOp' = Op("str", <<>>, Undefined, lastOp.n)
  /\ UNCHANGED <<uri, twin, origin>>
  /\ UNCHANGED exceptUri

-----------------------------------------------------------------------------
(***************************************************************************)
(* RestUri.loadFile (util/RestUri.ts 208-227).  The call creates a write   *)
(* stream on a fresh temporary path and issues a GET; the then-callback    *)
(* pipes the response into the file and registers a 'close' listener,      *)
(* which re-reads the file, decodes it and resolves.  Only the             *)
(* catch-callback of the GET rejects.  An exception thrown in the 'close'  *)
(* listener and an 'error' event of a stream reach no callback of the      *)
(* promise.                                                                *)
(***************************************************************************)
MaxLoads == 2

LoadBodies == {Str("text"), Str(""), Obj({<<"x", "1">>})}
\* What re-reading and decoding the file ends with: readFileSync throws,
\* JSON.parse throws, or a value is decoded.
CloseOutcomes ==
  {[kind |-> "readError", value |-> Undefined],
   [kind |-> "decodeError", value |-> Undefined]}
    \cup {[kind |-> "decoded", value |-> b] : b \in LoadBodies}
StreamErrors == {"source", "file"}

LoadIdle == loads = <<>> /\ tmpFiles = {}

With(phase) == {i \in DOMAIN loads : loads[i].phase = phase}

\* RestUri.ts 211-215: tempfile(), createWriteStream, HttpClient.get
LoadFile ==
  /\ Len(loads) < MaxLoads
  /\ loads' = Append(loads, [phase |-> "requesting", promise |-> "pending",
                             value |-> Undefined, error |-> "none"])
  /\ tmpFiles' = tmpFiles \cup {Len(loads) + 1}
  /\ UNCHANGED exceptLoad

\* RestUri.ts 223-225: the GET is rejected, the catch-callback rejects.
LoadCatch ==
  \E i \in With("requesting"), e \in TransportErrors :
    /\ loads' = [loads EXCEPT ![i].phase = "failed", ![i].promise = "rejected",
                              ![i].value = e]
    /\ UNCHANGED tmpFiles
    /\ UNCHANGED exceptLoad

\* RestUri.ts 216-217: the then-callback starts the pipe.
LoadThen ==
  \E i \in With("requesting") :
    /\ loads' = [loads EXCEPT ![i].phase = "piping"]
    /\ UNCHANGED tmpFiles
    /\ UNCHANGED exceptLoad

\* A stream emits 'error' while the response is piped: no listener is
\* registered for it, and a failing source does not end the file stream.
LoadStreamError ==
  \E i \in With("piping"), s \in StreamErrors :
    /\ loads' = [loads EXCEPT ![i].phase = "broken", ![i].error = s]
    /\ UNCHANGED tmpFiles
    /\ UNCHANGED exceptLoad

\* RestUri.ts 217-221: the file stream emits 'close' (after the pipe ended,
\* or when the stream is destroyed after its own error).
LoadClose ==
  \E i \in With("piping") \cup {j \in With("broken") : loads[j].error = "file"},
     o \in CloseOutcomes :
    /\ loads' = IF o.kind = "decoded"
                  THEN [loads EXCEPT ![i].phase = "closed",
                                     ![i].promise = "resolved",
                                     ![i].value = Response(HttpOK, o.value)]
                  ELSE [loads EXCEPT ![i].phase = "thrown", ![i].error = o.kind]
    /\ UNCHANGED tmpFiles
    /\ UNCHANGED exceptLoad

-----------------------------------------------------------------------------
(***************************************************************************)
(* Paging (unnamed/part_006).  A caller sends paged request options, the   *)
(* server answers with a page, getNextPagedRequestOptions computes the     *)
(* options of the next request from the page.                              *)
(***************************************************************************)
MaxPages == 3
MaxLimit == 2

PagedRequestOptions(limit, start) == [limit |-> limit, start |-> start]
PagedResponseBase(start, limit, lastPage, size) ==
  [start |-> start, limit |-> limit, lastPage |-> lastPage, size |-> size]

\* Variant: the size of the page is not added.
getNextPagedRequestOptions_KeepsStart(lastResult, limit) ==
  IF lastResult.lastPage = TRUE THEN Undefined
  ELSE PagedRequestOptions(IF Truthy(limit) THEN limit.n ELSE lastResult.limit,
                           lastResult.start)

\* part_006 22-37
getNextPagedRequestOptions(lastResult, limit) ==
  IF lastResult.lastPage = TRUE THEN Undefined
  ELSE LET start0 == IF Truthy(Num(lastResult.start)) THEN lastResult.start ELSE 0
           start == IF Truthy(Num(lastResult.size)) THEN start0 + lastResult.size
                    ELSE start0
       IN PagedRequestOptions(IF Truthy(limit) THEN limit.n ELSE lastResult.limit,
                              start)

NotCalled == [t |-> "not called"]
LimitArguments == {Undefined, Num(0), Num(1), Num(MaxLimit)}

PageIdle ==
  /\ pageRequests = <<>>
  /\ pages = <<>>
  /\ nextOptions = NotCalled
  /\ givenLimit = Undefined

\* The first request of a listing.
PageInit ==
  /\ \E limit \in 1..MaxLimit : pageRequests = <<PagedRequestOptions(limit, 0)>>
  /\ pages = <<>>
  /\ nextOptions = NotCalled
  /\ givenLimit = Undefined

\* The server answers the last request: a page from the requested start of
\* at most limit values.
ServerAnswers ==
  /\ Len(pages) < Len(pageRequests)
  /\ \E size \in 0..MaxLimit, lastPage \in BOOLEAN :
       LET request == pageRequests[Len(pageRequests)]
       IN /\ size <= request.limit
          /\ pages' = Append(pages, PagedResponseBase(request.start, request.limit,
                                                      lastPage, size))
  /\ UNCHANGED <<pageRequests, nextOptions, givenLimit>>
  /\ UNCHANGED exceptPage

GetNextPagedRequestOptions ==
  /\ Len(pages) = Len(pageRequests)
  /\ nextOptions = NotCalled
  /\ \E limit \in LimitArguments :
       /\ nextOptions' = getNextPagedRequestOptions(pages[Len(pages)], limit)
       /\ givenLimit' = limit
  /\ UNCHANGED <<pageRequests, pages>>
  /\ UNCHANGED exceptPage

\* The caller follows the options returned.
RequestNextPage ==
  /\ nextOptions \notin {NotCalled, Undefined}
  /\ Len(pageRequests) < MaxPages
  /\ pageRequests' = Append(pageRequests, nextOptions)
  /\ nextOptions' = NotCalled
  /\ UNCHANGED <<pages, givenLimit>>
  /\ UNCHANGED exceptPage

-----------------------------------------------------------------------------
(* Response.resolveIf / rejectIf / reject (restUri.ts 224-276) *)

MaxChain == 3

\* The argument `code`: one status code or an array of status codes.
Code(c) == [array |-> FALSE, items |-> <<c>>]
Codes(cs) == [array |-> TRUE, items |-> cs]

\* restUri.ts 257, 266: Array.isArray(code) ? code : [code]
codesOf(code) == IF code.array THEN code.items ELSE <<code.items[1]>>

includes(codes, x) == \E k \in DOMAIN codes : codes[k] = x

\* The outcome of one call: whether the callback was invoked and with what,
\* the field done after the call, and what the call returned.
Fired(value, r) == [fired |-> TRUE, value |-> value, done |-> TRUE, returns |-> r]
Skipped(d, r) == [fired |-> FALSE, value |-> Undefined, done |-> d, returns |-> r]

\* restUri.ts 256-263
resolveIf(self, d, code) ==
  LET codes == codesOf(code)
  IN IF ~d /\ ~IsNullish(self.result)
          /\ (Len(codes) = 0 \/ includes(codes, self.statusCode))
       THEN Fired(self.result, "this")
       ELSE Skipped(d, "this")

\* restUri.ts 265-272
rejectIf(self, d, code) ==
  LET codes == codesOf(code)
  IN IF ~d /\ (Len(codes) = 0 \/ includes(codes, self.statusCode))
       THEN Fired(self.result, "this")
       ELSE Skipped(d, "this")

\* restUri.ts 274-276: the callback is invoked whatever done is, done is left
\* as it is and nothing is returned.
rejectAlways(self, d) ==
  [fired |-> TRUE, value |-> self.result, done |-> d, returns |-> "undefined"]

ChainStatuses == {HttpOK, 404}
ChainBodies == {Null, Undefined, Num(0), Obj({<<"x", "1">>})}
CodeArguments ==
  {Code(HttpOK), Code(404), Codes(<<>>), Codes(<<HttpOK, 404>>)}

ChainIdle ==
  /\ chained = Response(HttpOK, Null)
  /\ done = FALSE
  /\ chain = <<>>
  /\ returned = "this"

\* A new Response: done is false and nothing was called on it.
ChainInit ==
  /\ chained \in {Response(s, b) : s \in ChainStatuses, b \in ChainBodies}
  /\ done = FALSE
  /\ chain = <<>>
  /\ returned = "this"

\* The next call of the chain is made on what the last call returned.
Chain(op, code, out) ==
  /\ chain' = Append(chain, [op |-> op, code |-> code, fired |-> out.fired,
                             value |-> out.value])
  /\ done' = out.done
  /\ returned' = out.returns
  /\ UNCHANGED chained
  /\ UNCHANGED exceptChain

ResolveIf ==
  /\ Len(chain) < MaxChain
  /\ returned = "this"
  /\ \E code \in CodeArguments : Chain("resolveIf", code, resolveIf(chained, done, code))

RejectIf ==
  /\ Len(chain) < MaxChain
  /\ returned = "this"
  /\ \E code \in CodeArguments : Chain("rejectIf", code, rejectIf(chained, done, code))

Reject ==
  /\ Len(chain) < MaxChain
  /\ returned = "this"
  /\ Chain("reject", Codes(<<>>), rejectAlways(chained, done))

-----------------------------------------------------------------------------
(* Specifications *)

\* The parts added last, before anything is called on them.
OthersIdle == LoadIdle /\ PageIdle /\ ReplyIdle /\ ChainIdle

ResponseIdle ==
  /\ response = Response(HttpOK, Null)
  /\ lastCall = NoCall
  /\ ret = Undefined

AuthIdle ==
  /\ useAccessToken = TRUE
  /\ constructed = FALSE
  /\ basicAuthHandler = NoHandler
  /\ tokenHandler = NoHandler
  /\ logins = <<>>
  /\ lastLogin = NoLogin
  /\ lastSuccessToken = Undefined
  /\ built = {}
  /\ escaped = FALSE
  /\ uris = <<>>

\* The connector: construction, login exchanges, requests.
Init == AuthInit /\ ResponseIdle /\ VerbInit /\ EndpointInit /\ UriIdle /\ OthersIdle
Next ==
  \/ Construct
  \/ Refresh
  \/ LoginResolve
  \/ LoginReject
  \/ GetRestUri
  \/ SendRequest
  \/ RequestCompletes
Spec == Init /\ [][Next]_vars

\* One Response and the calls made on it.
InitResponse == ResponseInit /\ AuthIdle /\ VerbInit /\ EndpointInit /\ UriIdle /\ OthersIdle
NextResponse == GetResult \/ GetError
SpecResponse == InitResponse /\ [][NextResponse]_vars

\* The verb operations of one RestUri.
InitVerb == VerbInit /\ AuthIdle /\ ResponseIdle /\ EndpointInit /\ UriIdle /\ OthersIdle
NextVerb == CallVerb \/ ClientResolve \/ ClientReject
SpecVerb == InitVerb /\ [][NextVerb]_vars

\* The endpoint operations of the Crucible sub-connector.
InitEndpoint == EndpointInit /\ AuthIdle /\ ResponseIdle /\ VerbInit /\ UriIdle /\ OthersIdle
NextEndpoint == CallEndpoint \/ EndpointThen \/ EndpointCatch
SpecEndpoint == InitEndpoint /\ [][NextEndpoint]_vars

\* One Uri built by a sub-connector and the calls made on it.
InitUri ==
  UriInit /\ AuthIdle /\ ResponseIdle /\ VerbInit /\ EndpointInit /\ OthersIdle
NextUri ==
  \/ AddSegment
  \/ SetParameter
  \/ SetParametersFromArray
  \/ SetParametersFromObject
  \/ UriToString
SpecUri == InitUri /\ [][NextUri]_vars

\* One RestUri of util/restUri.ts and the calls made on it.
InitRestUriV1 ==
  RestUriInit /\ AuthIdle /\ ResponseIdle /\ VerbInit /\ EndpointInit /\ OthersIdle
NextRestUriV1 == SetArgs \/ SetArg \/ AddPart \/ CallStr
SpecRestUriV1 == InitRestUriV1 /\ [][NextRestUriV1]_vars

\* The loadFile calls of one RestUri.
InitLoad ==
  LoadIdle /\ AuthIdle /\ ResponseIdle /\ VerbInit /\ EndpointInit /\ UriIdle
    /\ PageIdle /\ ReplyIdle /\ ChainIdle
NextLoad == LoadFile \/ LoadCatch \/ LoadThen \/ LoadStreamError \/ LoadClose
SpecLoad == InitLoad /\ [][NextLoad]_vars

\* One listing followed page by page.
InitChain ==
  ChainInit /\ AuthIdle /\ ResponseIdle /\ VerbInit /\ EndpointInit /\ UriIdle
    /\ LoadIdle /\ PageIdle /\ ReplyIdle
NextChain == ResolveIf \/ RejectIf \/ Reject
SpecChain == InitChain /\ [][NextChain]_vars

InitPage ==
  PageInit /\ AuthIdle /\ ResponseIdle /\ VerbInit /\ EndpointInit /\ UriIdle
    /\ LoadIdle /\ ReplyIdle /\ ChainIdle
NextPage == ServerAnswers \/ GetNextPagedRequestOptions \/ RequestNextPage
SpecPage == InitPage /\ [][NextPage]_vars

-----------------------------------------------------------------------------
(* Properties of the Response envelope, checked under SpecResponse *)

Absent(b) == b \in {Null, Undefined}
Falsy(b) == b \in {Null, Undefined, Num(0), Str(""), Bool(FALSE)}
GivenMessage == IF lastCall.arg = Undefined THEN "Unknown error" ELSE lastCall.arg.s

\* C1: for a Response with status s and body b, getResult(e) returns b exactly
\* when e equals s and b is not null/undefined and returns undefined otherwise;
\* getResult() without an expected status returns b for every status when b
\* is not null/undefined and undefined when it is.
C1_GetResult ==
  lastCall.op = "getResult" =>
    LET s == response.statusCode
        b == response.result
        e == lastCall.arg
    IN IF e = Undefined
         THEN ret = (IF Absent(b) THEN Undefined ELSE b)
         ELSE ret = (IF e = Num(s) /\ ~Absent(b) THEN b ELSE Undefined)

C1_Witness ==
  /\ lastCall = [op |-> "getResult", arg |-> Num(HttpOK)]
  /\ response = Response(HttpOK, Obj({<<"x", "1">>}))
  /\ ret = Obj({<<"x", "1">>})

\* C2 as stated: getError(fallbackMessage) returns the stored body verbatim
\* whenever the body is not null/undefined, whatever its shape, and
\* {code: "Unknown", message: fallbackMessage} when it is null/undefined.
C2_Original ==
  lastCall.op = "getError" =>
    ret = (IF ~Absent(response.result) THEN response.result
           ELSE ErrorObject("Unknown", GivenMessage))

\* C2 as amended: getError(fallbackMessage) returns the stored body verbatim
\* when the body is truthy (not null, undefined, false, 0 or ""), whatever the
\* status, and {code: "Unknown", message: fallbackMessage} otherwise; without
\* an argument the fallback message is "Unknown error".
C2_GetError ==
  lastCall.op = "getError" =>
    ret = (IF ~Falsy(response.result) THEN response.result
           ELSE ErrorObject("Unknown", GivenMessage))

C2_Witness ==
  /\ lastCall = [op |-> "getError", arg |-> Str("custom")]
  /\ response = Response(404, Num(0))
  /\ ret = ErrorObject("Unknown", "custom")

-----------------------------------------------------------------------------
(* Properties of the authentication lifecycle, checked under Spec *)

\* Every handler list the connector has handed out, and the one it would
\* hand out now.
HandlerLists ==
  {logins[i].authHandlers : i \in DOMAIN logins}
    \cup {uris[i].authHandlers : i \in DOMAIN uris}
    \cup (IF constructed THEN {getAuthHandlers(tokenHandler, basicAuthHandler)}
          ELSE {})
AllDone == logins # <<>> /\ InFlight(logins) = {}

C4_LoginOutcome ==
  lastLogin.outcome # "none" =>
    tokenHandler =
      (IF lastLogin.outcome = "resolved" /\ CarriesToken(lastLogin.response)
         THEN PersonalAccessTokenCredentialHandler(
                Field(lastLogin.response.result, "token"))
         ELSE NoHandler)

\* C5: with useAccessToken = false no login exchange is ever issued and every
\* handler list is exactly [basicHandler].
C5_TokenModeDisabled ==
  ~useAccessToken =>
    /\ logins = <<>>
    /\ \A hs \in HandlerLists : hs = <<basicAuthHandler>>
    /\ \A i \in DOMAIN uris : uris[i].sentWith \in {<<>>, <<basicAuthHandler>>}

C5_Witness ==
  /\ ~useAccessToken
  /\ constructed
  /\ \E i \in DOMAIN uris : uris[i].sentWith = <<basicAuthHandler>>

\* C6: a failed login exchange is never propagated: no rejection leaves the
\* login promise chain, the constructor has returned, and every request is
\* issued with the basic handler in its list.
C6_LoginFailureSwallowed ==
  /\ ~escaped
  /\ logins # <<>> => constructed
  /\ \A i \in DOMAIN uris :
       /\ \E k \in DOMAIN uris[i].authHandlers :
            uris[i].authHandlers[k] = basicAuthHandler
       /\ uris[i].sentWith \in {<<>>, uris[i].authHandlers}

C6_Witness ==
  /\ \E i \in DOMAIN logins : logins[i].state = "rejected"
  /\ lastLogin.outcome = "rejected"
  /\ \E i \in DOMAIN uris :
       uris[i].readAfter >= 1 /\ uris[i].sentWith = <<basicAuthHandler>>

C8_TokenOfferedAfterFirst ==
  useAccessToken =>
    \A i \in DOMAIN uris :
      uris[i].sentWith # <<>> =>
        \E k \in DOMAIN uris[i].sentWith : uris[i].sentWith[k].kind = "token"

C25_NoAutomaticRefresh ==
  [][/\ Len(logins) <= Len(logins') /\ Len(logins') <= Len(logins) + 1
     /\ Len(logins') = Len(logins) + 1 =>
          /\ useAccessToken
          /\ uris' = uris /\ replies' = replies
          /\ \A i \in DOMAIN logins : logins'[i] = logins[i]
          /\ logins'[Len(logins')].state = "inflight"
     /\ (~constructed /\ constructed' /\ useAccessToken) => Len(logins') = 1
     /\ (constructed /\ InFlight(logins) = {} /\ Len(logins') = Len(logins)) =>
          /\ tokenHandler' = tokenHandler
          /\ basicAuthHandler' = basicAuthHandler
          /\ getAuthHandlers(tokenHandler', basicAuthHandler')
               = getAuthHandlers(tokenHandler, basicAuthHandler)]_vars

\* A request created after the only login exchange completed is answered
\* with 401, and the connector is as the login left it.
C25_Witness ==
  /\ Len(logins) = 1
  /\ AllDone
  /\ tokenHandler.kind = "token"
  /\ \E i \in DOMAIN uris : uris[i].readAfter = 1 /\ <<i, 401>> \in replies

-----------------------------------------------------------------------------
(* Properties of the verb operations, checked under SpecVerb *)

\* C10: the promise of a verb operation resolves with a Response holding
\* exactly the status code and body of the completed exchange, for every
\* status including 4xx and 5xx, stays pending while the exchange is in
\* flight, and rejects only when the client reported a failure.
C10_VerbOutcome ==
  \A w \in DOMAIN wire :
    LET p == calls[wire[w].call]
    IN /\ wire[w].state = "inflight" => p.state = "pending"
       /\ wire[w].state = "completed" =>
            /\ p.state = "resolved"
            /\ p.value.statusCode = wire[w].response.statusCode
            /\ p.value.result = wire[w].response.result
       /\ p.state = "rejected" => wire[w].state = "failed"
       /\ wire[w].state = "failed" => p.state = "rejected"

C10_Witness ==
  \E w \in DOMAIN wire :
    /\ wire[w].state = "completed"
    /\ wire[w].response = Response(500, NotFoundError)
    /\ calls[wire[w].call].state = "resolved"
    /\ calls[wire[w].call].value = Response(500, NotFoundError)

ExchangesOf(c) == {w \in DOMAIN wire : wire[w].call = c}

\* C11: no verb operation retries: every call has issued exactly one HTTP
\* exchange, its promise is settled exactly when that exchange has ended and
\* never changes once settled, and after a transport failure it is rejected
\* with the very error the client reported.
C11_NoRetry ==
  [][/\ \A c \in DOMAIN calls' :
          /\ Cardinality({w \in DOMAIN wire' : wire'[w].call = c}) = 1
          /\ \A w \in {v \in DOMAIN wire' : wire'[v].call = c} :
               /\ (calls'[c].state = "pending") = (wire'[w].state = "inflight")
               /\ wire'[w].state = "failed" =>
                    /\ calls'[c].state = "rejected"
                    /\ calls'[c].error = wire'[w].error
     /\ \A c \in DOMAIN calls :
          calls[c].state # "pending" => calls'[c] = calls[c]]_vars

C11_Witness ==
  \E c \in DOMAIN calls :
    /\ calls[c].state = "rejected"
    /\ calls[c].error = Str("ECONNREFUSED")
    /\ Cardinality(ExchangesOf(c)) = 1
    /\ \A w \in ExchangesOf(c) : wire[w].error = Str("ECONNREFUSED")

\* C28: replace and update send different verbs: the exchange of a replace
\* call and the exchange of an update call never go through the same
\* method of the REST client.
C28_ReplaceIsNotUpdate ==
  \A v, w \in DOMAIN wire :
    (calls[wire[v].call].verb = "replace" /\ calls[wire[w].call].verb = "update")
      => wire[v].method # wire[w].method

-----------------------------------------------------------------------------
(* Properties of the endpoint operations, checked under SpecEndpoint *)

\* Requests whose exchange completed and whose promise was rejected.
Refused == {i \in DOMAIN requests : /\ requests[i].state = "rejected"
                                    /\ requests[i].cause = "response"}

\* C12: whenever an endpoint operation rejects after a completed exchange,
\* the rejection value is defined (neither undefined nor null): the body
\* when the response has one, the default error otherwise.
C12_RejectsWithError ==
  \A i \in Refused :
    /\ ~IsNullish(requests[i].value)
    /\ Absent(requests[i].response.result) => requests[i].value = defaultError

\* The three review transitions and what each treats as success.
Succeeds(endpoint, r) ==
  IF endpoint = "changeReviewState"
    THEN r.statusCode = HttpOK /\ ~Falsy(r.result)
    ELSE r.statusCode = HttpOK

ReviewRequests == {i \in DOMAIN requests : /\ requests[i].endpoint \in ReviewEndpoints
                                           /\ requests[i].cause = "response"}

\* C13 as stated: a review transition that does not succeed rejects with the
\* body when the response has one (present, at status 409 or any other),
\* and with the default error only when the body is absent.
C13_Original ==
  \A i \in ReviewRequests :
    LET q == requests[i]
    IN ~Succeeds(q.endpoint, q.response) =>
         /\ q.state = "rejected"
         /\ q.value = IF Absent(q.response.result) THEN defaultError
                      ELSE q.response.result

\* C13: a review transition that does not succeed rejects; with status 409
\* and a truthy body the rejection value is that body, never the default
\* error; with any other response it is the body when the body is truthy
\* and the default error when the body is absent or falsy.
C13_ConflictFirst ==
  \A i \in ReviewRequests :
    LET q == requests[i]
        body == q.response.result
    IN /\ (q.state = "rejected") = ~Succeeds(q.endpoint, q.response)
       /\ q.state = "rejected" =>
            /\ (q.response.statusCode = HttpConflict /\ ~Falsy(body)) =>
                 (q.value = body /\ q.value # defaultError)
            /\ ~Falsy(body) => q.value = body
            /\ Falsy(body) => q.value = defaultError

C13_Witness ==
  \E i \in ReviewRequests :
    /\ requests[i].endpoint = "completeReview"
    /\ requests[i].response = Response(HttpConflict, ConflictError)
    /\ requests[i].state = "rejected"
    /\ requests[i].value = ConflictError

\* The endpoints that expect a typed body, and the status each expects it at.
TypedEndpoints == ContentEndpoints \cup CreatedEndpoints \cup AllowedEndpoints
SuccessStatus(endpoint) ==
  IF endpoint \in CreatedEndpoints THEN HttpCreated ELSE HttpOK

\* C24: an endpoint operation that expects a typed body at status S resolves
\* with the response body exactly when the exchange completed with status S
\* and a body is present, and rejects whenever the exchange completed
\* otherwise; a settled promise has one outcome.
C24_TypedSuccess ==
  \A i \in DOMAIN requests :
    LET q == requests[i]
    IN (q.endpoint \in TypedEndpoints /\ q.cause = "response") =>
         /\ q.state \in {"resolved", "rejected"}
         /\ (q.state = "resolved") =
              (q.response.statusCode = SuccessStatus(q.endpoint)
                 /\ ~Absent(q.response.result))
         /\ q.state = "resolved" => q.value = q.response.result

ReviewItem == "reviews-v1/{reviewId}/reviewitems/{reviewItemId}"

\* C27: getReviewItem calls the GET operation on the review item and never
\* the DELETE operation; the only endpoint operation that calls DELETE on
\* a review item is deleteReviewItem.
C27_GetReviewItemReads ==
  \A i \in DOMAIN requests :
    /\ requests[i].endpoint = "getReviewItem" =>
         /\ requests[i].resource = ReviewItem
         /\ requests[i].verb = "get"
    /\ (requests[i].resource = ReviewItem /\ requests[i].verb = "del") =>
         requests[i].endpoint = "deleteReviewItem"

-----------------------------------------------------------------------------
(* Properties of Uri, checked under SpecUri *)

\* C14: a sequence of addSegment calls renders the same path as the calls
\* made once for each non-empty '/'-separated fragment of the texts, in
\* order; addSegment("/a/b/") is addSegment("a") followed by addSegment("b").
C14_SegmentsSplit ==
  /\ toString(uri).url = toString(twin).url
  /\ lastOp.op = "addSegment" =>
       toString(uri).url = toString(addEach(prevUri, Fragments(lastOp.arg.cs))).url
  /\ (lastOp.op = "addSegment" /\ lastOp.arg = Text(<<"/", "a", "/", "b", "/">>)) =>
       uri = addSegment(addSegment(prevUri, <<"a">>), <<"b">>)

C14_Witness ==
  /\ lastOp.op = "addSegment"
  /\ lastOp.arg = Text(<<"/", "a", "/", "b", "/">>)
  /\ uri.segments = prevUri.segments \o << <<"a">>, <<"b">> >>

\* The path and the query a Uri stands for: '/' before every segment; the
\* pairs key=value, one per stored value, keys in the order of the entries
\* and the values of a key in the order of its list.
RECURSIVE PathOf(_)
PathOf(segments) ==
  IF segments = <<>> THEN <<>>
  ELSE <<"/">> \o encodeURI(Head(segments)) \o PathOf(Tail(segments))

RECURSIVE PairsOfKey(_, _)
PairsOfKey(key, values) ==
  IF values = <<>> THEN <<>>
  ELSE << <<key, Head(values)>> >> \o PairsOfKey(key, Tail(values))

RECURSIVE PairsOf(_)
PairsOf(args) ==
  IF args = <<>> THEN <<>>
  ELSE PairsOfKey(Head(args).key, Head(args).values) \o PairsOf(Tail(args))

RECURSIVE QueryOf(_)
QueryOf(pairs) ==
  IF pairs = <<>> THEN <<>>
  ELSE encodeURI(Head(pairs)[1]) \o <<"=">> \o encodeURI(Head(pairs)[2])
         \o (IF Tail(pairs) = <<>> THEN <<>> ELSE <<"&">> \o QueryOf(Tail(pairs)))

HasChar(cs, c) == \E i \in DOMAIN cs : cs[i] = c

\* C15: toString returns the base, '/' and each segment in insertion order,
\* and '?' with the key=value pairs joined by '&' exactly when at least one
\* parameter value is stored; it leaves the Uri as it was, so a second call
\* returns the same string.
C15_Rendering ==
  lastOp.op = "toString" =>
    /\ rendered = uri.base \o PathOf(uri.segments)
                    \o (IF PairsOf(uri.args) = <<>> THEN <<>>
                        ELSE <<"?">> \o QueryOf(PairsOf(uri.args)))
    /\ HasChar(rendered, "?") = (PairsOf(uri.args) # <<>>)
    /\ uri = prevUri
    /\ toString(uri).url = rendered

C15_Witness ==
  /\ lastOp.op = "toString"
  /\ Len(uri.segments) >= 3
  /\ Len(PairsOf(uri.args)) >= 2
  /\ HasChar(rendered, "&")

IsPrefix(a, b) == Len(a) <= Len(b) /\ SubSeq(b, 1, Len(a)) = a
KeysOf(u) == [i \in DOMAIN u.args |-> u.args[i].key]
StoredKeys(u) == {u.args[i].key : i \in DOMAIN u.args}
Stored(u, key) ==
  IF key \in StoredKeys(u)
    THEN u.args[CHOOSE i \in DOMAIN u.args : u.args[i].key = key].values
    ELSE <<>>
CountChar(cs, c) == Cardinality({i \in DOMAIN cs : cs[i] = c})

\* The texts a call adds when its argument is neither undefined nor null.
TextsOf(arg) ==
  IF arg.t = "array" THEN [i \in DOMAIN arg.items |-> String(arg.items[i])]
  ELSE <<String(arg)>>

\* C16: setParameter and setParametersFromArray append to the list stored
\* for the key: the values already stored stay in front and in order, the
\* other keys keep their lists, a key seen for the first time comes after
\* the keys already stored; toString renders one key=value pair per stored
\* value, keys in the order of first insertion, values in the order added.
C16_AppendOnly ==
  /\ lastOp.op \in {"setParameter", "setParametersFromArray"} =>
       /\ IsPrefix(KeysOf(prevUri), KeysOf(uri))
       /\ StoredKeys(uri) \subseteq StoredKeys(prevUri) \cup {lastOp.key}
       /\ \A key \in StoredKeys(uri) \ {lastOp.key} :
            Stored(uri, key) = Stored(prevUri, key)
       /\ IsPrefix(Stored(prevUri, lastOp.key), Stored(uri, lastOp.key))
       /\ ~IsNullish(lastOp.arg) =>
            Stored(uri, lastOp.key) =
              Stored(prevUri, lastOp.key) \o TextsOf(lastOp.arg)
  /\ lastOp.op = "toString" =>
       /\ CountChar(rendered, "=") = Len(PairsOf(uri.args))
       /\ PairsOf(uri.args) # <<>> =>
            \E i \in DOMAIN rendered :
              /\ rendered[i] = "?"
              /\ SubSeq(rendered, i + 1, Len(rendered)) = QueryOf(PairsOf(uri.args))

\* t=git&t=svn, then one more value for t after k was inserted.
C16_Witness ==
  /\ lastOp.op = "setParameter"
  /\ lastOp.key = <<"t">>
  /\ KeysOf(uri) = << <<"t">>, <<"k">> >>
  /\ Len(Stored(prevUri, <<"t">>)) = 2
  /\ Len(Stored(uri, <<"t">>)) = 3

\* C17: setParameter with undefined or null, and setParametersFromArray with
\* undefined, null or an empty array, leave the stored parameters and the
\* rendered string as they were.
C17_NoOps ==
  (\/ lastOp.op = "setParameter" /\ IsNullish(lastOp.arg)
   \/ lastOp.op = "setParametersFromArray"
        /\ (IsNullish(lastOp.arg) \/ lastOp.arg = Arr(<<>>)))
  => /\ uri = prevUri
     /\ toString(uri).url = toString(prevUri).url

\* The properties of an object and the texts each one stands for.  With
\* skipNull a null value stands for nothing, as undefined does.
PropertyNames(o) == {o.entries[i][1] : i \in DOMAIN o.entries}
PropertyValue(o, name) ==
  o.entries[CHOOSE i \in DOMAIN o.entries : o.entries[i][1] = name][2]
TextsOfProperty(o, name, skipNull) ==
  LET v == PropertyValue(o, name)
  IN IF v = Undefined \/ (skipNull /\ v = Null) THEN <<>> ELSE TextsOf(v)
NamesAdding(o, skipNull) ==
  {name \in PropertyNames(o) : TextsOfProperty(o, name, skipNull) # <<>>}
RECURSIVE NamesInOrder(_, _, _)
NamesInOrder(o, es, skipNull) ==
  IF es = <<>> THEN <<>>
  ELSE (IF Head(es)[1] \in NamesAdding(o, skipNull) THEN <<Head(es)[1]>> ELSE <<>>)
         \o NamesInOrder(o, Tail(es), skipNull)
RECURSIVE WithoutKeys(_, _)
WithoutKeys(keys, known) ==
  IF keys = <<>> THEN <<>>
  ELSE (IF Head(keys) \in known THEN <<>> ELSE <<Head(keys)>>)
         \o WithoutKeys(Tail(keys), known)

\* What setParametersFromObject(o) is to store, given what was stored.
AddsProperties(o, skipNull) ==
  /\ StoredKeys(uri) = StoredKeys(prevUri) \cup NamesAdding(o, skipNull)
  /\ KeysOf(uri) = KeysOf(prevUri)
                     \o WithoutKeys(NamesInOrder(o, o.entries, skipNull),
                                    StoredKeys(prevUri))
  /\ \A key \in StoredKeys(uri) :
       Stored(uri, key) =
         Stored(prevUri, key)
           \o (IF key \in PropertyNames(o)
                 THEN TextsOfProperty(o, key, skipNull) ELSE <<>>)

FromObject == lastOp.op = "setParametersFromObject" /\ ~IsNullish(lastOp.arg)

\* C18 as stated: only a property whose value is undefined or an empty
\* array produces no parameter; any other value that is not an array, null
\* included, adds one value.
C18_Original == FromObject => AddsProperties(lastOp.arg, FALSE)

\* C18: setParametersFromObject(o) adds parameters only for the properties
\* of o whose value is neither undefined nor null: such a property, or one
\* with an empty array, produces no parameter at all; an array adds one
\* value per element in order, any other value adds one value; so
\* {a: undefined, b: "x"} renders only ?b=x and {a: []} no a parameter.
C18_FromObject ==
  /\ FromObject => AddsProperties(lastOp.arg, TRUE)
  /\ (FromObject /\ prevUri.args = <<>>) =>
       /\ lastOp.arg = Entries(<< <<(<<"a">>), Undefined>>, <<(<<"b">>), Text(<<"x">>)>> >>)
            => toString(uri).url = toString(prevUri).url \o <<"?", "b", "=", "x">>
       /\ lastOp.arg = Entries(<< <<(<<"a">>), Arr(<<>>)>> >>)
            => /\ <<"a">> \notin StoredKeys(uri)
               /\ toString(uri).url = toString(prevUri).url

C18_Witness ==
  /\ lastOp.op = "setParametersFromObject"
  /\ lastOp.arg = Entries(<< <<(<<"a">>), Undefined>>, <<(<<"b">>), Text(<<"x">>)>> >>)
  /\ prevUri.args = <<>>
  /\ uri.args = << [key |-> <<"b">>, values |-> << <<"x">> >>] >>

RECURSIVE Slashed(_)
Slashed(fragments) ==
  IF fragments = <<>> THEN <<>>
  ELSE <<"/">> \o Head(fragments) \o Slashed(Tail(fragments))

\* The web context a sub-connector is configured with, as a text: empty
\* when none is configured.
ContextText ==
  IF origin.webContext \in {Undefined, Text(<<>>)} THEN <<>>
  ELSE origin.webContext.cs

AfterHost(url) == SubSeq(url, Len(origin.host) + 1, Len(url))

\* C20: a Uri built by getRestUri renders as the host, then '/' and each
\* fragment of the web context when one is configured, then '/' and each
\* fragment of the resource path; without a web context (undefined or
\* empty) the path follows the host directly; no segment is empty, so no
\* two slashes follow each other after the host, whatever is added later.
C20_WebContext ==
  LET url == toString(uri).url
      expected == origin.host \o Slashed(Fragments(ContextText))
                 \o Slashed(Fragments(origin.base))
  IN /\ IsPrefix(expected, url)
     /\ lastOp.op = "getRestUri" => url = expected
     /\ ContextText = <<>> =>
          IsPrefix(origin.host \o Slashed(Fragments(origin.base)), url)
     /\ \A i \in 1..(Len(AfterHost(url)) - 1) :
          ~(AfterHost(url)[i] = "/" /\ AfterHost(url)[i + 1] = "/")
     /\ lastOp.op = "toString" => rendered = url

C20_Witness ==
  /\ origin.webContext = Text(<<>>)
  /\ lastOp.op = "toString"
  /\ lastOp.n = 0
  /\ rendered = <<"h", "/", "r", "/", "v">>

-----------------------------------------------------------------------------
(* Properties of RestUri.setArgs, checked under SpecRestUriV1 *)

RECURSIVE WithCommas(_)
WithCommas(texts) ==
  IF Len(texts) = 1 THEN Head(texts)
  ELSE Head(texts) \o <<",">> \o WithCommas(Tail(texts))

\* The values a list is to add in either mode.
AddedInMode(values, joined) ==
  IF IsNullish(values) \/ values = Arr(<<>>) THEN <<>>
  ELSE IF joined THEN <<WithCommas(TextsOf(values))>>
  ELSE TextsOf(values)

Joined(type) == type \in {Undefined, Str("join")}

\* C19: in repeat mode a list [v1..vn] for key k adds v1..vn and renders
\* k=v1&...&k=vn in list order; in join mode it adds the one value
\* v1,...,vn and renders a single pair k=v1,...,vn; an empty or undefined
\* list adds nothing in either mode.
C19_Modes ==
  lastOp.op = "setArgs" =>
    LET added == AddedInMode(lastOp.arg.values, Joined(lastOp.arg.type))
    IN /\ added = <<>> => (uri = prevUri /\ str(uri) = str(prevUri))
       /\ Stored(uri, lastOp.key) = Stored(prevUri, lastOp.key) \o added
       /\ \A key \in StoredKeys(uri) \ {lastOp.key} :
            Stored(uri, key) = Stored(prevUri, key)
       /\ Joined(lastOp.arg.type) => Len(added) <= 1
       /\ (prevUri.args = <<>> /\ added # <<>>) =>
            str(uri) = str(prevUri) \o <<"?">>
                         \o QueryOf(PairsOfKey(lastOp.key, added))

\* t=git,svn after a join and t=git&t=svn after a repeat.
C19_Witness ==
  /\ lastOp.op = "setArgs"
  /\ lastOp.key = <<"t">>
  /\ lastOp.arg = ArgsCall(Arr(<<Git, Svn>>), Str("repeat"))
  /\ str(prevUri) = <<"h", "?", "t", "=", "g", "i", "t", ",", "s", "v", "n">>
  /\ str(uri) = <<"h", "?", "t", "=", "g", "i", "t", ",", "s", "v", "n", "&",
                  "t", "=", "g", "i", "t", "&", "t", "=", "s", "v", "n">>

-----------------------------------------------------------------------------
(* Properties of RestUri.loadFile, checked under SpecLoad *)

\* C21: the temporary file of a loadFile call is gone once the call's
\* promise has settled, whether it resolved or rejected.
C21_TempFileRemoved ==
  \A i \in DOMAIN loads : loads[i].promise # "pending" => i \notin tmpFiles

\* The calls for which nothing more will happen: no callback of the call is
\* registered for any later event.
Quiescent(i) ==
  \/ loads[i].phase \in {"failed", "closed", "thrown"}
  \/ loads[i].phase = "broken" /\ loads[i].error = "source"

\* C22: no loadFile call comes to rest with its promise pending: after the
\* stream closed, a transport failure, a file error or a decode failure the
\* promise is resolved or rejected.
C22_Settles ==
  \A i \in DOMAIN loads : Quiescent(i) => loads[i].promise # "pending"

-----------------------------------------------------------------------------
(* Properties of getNextPagedRequestOptions, checked under SpecPage *)

Called == nextOptions # NotCalled
LastPage == pages[Len(pages)]

\* The start offsets requested are those of adjacent pages: each request
\* starts where the page before it ended.
Adjacent ==
  \A i \in 1..(Len(pageRequests) - 1) :
    pageRequests[i + 1].start = pages[i].start + pages[i].size

C26_EncodedOnce ==
  lastOp.op = "addSegment" =>
    toString(uri).url =
      uri.base \o PathOf(prevUri.segments)
        \o Flatten([i \in DOMAIN Fragments(lastOp.arg.cs) |->
                      <<"/">> \o encodeURIComponent(Fragments(lastOp.arg.cs)[i])])
        \o (IF PairsOf(uri.args) = <<>> THEN <<>>
            ELSE <<"?">> \o QueryOf(PairsOf(uri.args)))

-----------------------------------------------------------------------------
(* Properties of Response.resolveIf / rejectIf / reject, checked under
   SpecChain *)

FiredCalls == {k \in DOMAIN chain : chain[k].fired}
Matches(code) ==
  Len(codesOf(code)) = 0 \/ includes(codesOf(code), chained.statusCode)

\* C30: in a chain of resolveIf, rejectIf and reject calls on one Response at
\* most one callback is invoked; a resolveIf that invoked its callback found
\* the body present and the status among its codes (or no codes), and a
\* rejectIf that invoked its callback found the status among its codes (or
\* no codes).
C30_AtMostOneCallback ==
  /\ Cardinality(FiredCalls) <= 1
  /\ \A k \in FiredCalls :
       /\ chain[k].op = "resolveIf" =>
            ~IsNullish(chained.result) /\ Matches(chain[k].code)
       /\ chain[k].op = "rejectIf" => Matches(chain[k].code)

=============================================================================
